---- MODULE Spec2Model ----
(***************************************************************************)
(* Model of the polling agents of the ham repository:                      *)
(*   npw    - nodepower/bin/npwAgent.py                                     *)
(*   bin    - arednsig/bin/arednsigAgent.py                                 *)
(*   fw319  - arednsig/aredn_fw_3_19_3_0/bin/arednsigAgent.py               *)
(*   fw320  - arednsig/aredn_fw_3_20_3_0/bin/arednsigAgent.py               *)
(* One behaviour is one run of one agent process.  Every call that main()  *)
(* makes inside a poll cycle is one action; the signal handler may run     *)
(* between any two of them.                                                 *)
(***************************************************************************)
EXTENDS Integers, Sequences, FiniteSets, TLC

\* ------------------------------------------------------------------ bounds
\* number of main-loop iterations explored for npw and fw320
MaxIter == 4
\* number of main-loop iterations explored for bin and fw319, whose node
\* responses are lists of data points
MaxListIter == 2
\* longest node response (number of data points) explored
MaxPoints == 2
\* largest data-point time stamp explored (the database starts at 0)
MaxDataTime == 2
\* value of time.time() in the first loop iteration
StartTime == 1000
\* value given with -p to the bin and fw319 agents (minutes, data points)
RequestIntervalArg == 2
\* number of set* calls explored in one run of an ft991 program
MaxCalls == 1

\* ------------------------------------------------------- program constants
NPW_DEFAULT_SENSOR_POLLING_INTERVAL == 2
NPW_DATABASE_UPDATE_INTERVAL == 30
NPW_MAX_FAILED_DATA_REQUESTS == 2
NPW_CHART_UPDATE_INTERVAL == 600
AREDN_MAX_FAILED_DATA_REQUESTS == 0
RELAY_SERVER == FALSE
FW320_DEFAULT_DATA_REQUEST_INTERVAL == 1
FW320_CHART_UPDATE_INTERVAL == 10

Agents == {"npw", "bin", "fw319", "fw320"}
ArednAgents == {"bin", "fw319", "fw320"}
RetryAgents == {"bin", "fw319"}

IterBound(a) == IF a \in RetryAgents THEN MaxListIter ELSE MaxIter

\* Python's None where the code compares it with an integer time stamp.
PyNone == 0 - 1

\* Python 2 ordering of an int against an int-or-None: None sorts below
\* every number, so  t <= None  is False.
Py2LessEq(t, last) == IF last = PyNone THEN FALSE ELSE t <= last

VARIABLES
  agent,                  \* which agent program this run is
  pc,                     \* position of the main thread
  rrdExists,              \* os.path.exists(_RRD_FILE) at start-up
  exitStatus,             \* PyNone while running, else the exit status
  signalled,              \* "none" or the signal the handler ran for
  failedUpdateCount,      \* global failedUpdateCount
  online,                 \* global deviceOnline / nodeOnline
  files,                  \* which output files exist
  iter,                   \* number of loop iterations started
  currentTime,            \* main: currentTime
  lastDataRequestTime,    \* main: lastDataRequestTime
  lastChartUpdateTime,    \* main: lastChartUpdateTime
  lastDatabaseUpdateTime, \* main: lastDatabaseUpdateTime
  polled,                 \* this iteration entered the poll branch
  result,                 \* main: result
  sData,                  \* main: sData (the node response)
  ldData,                 \* main: ldData / dData
  rrdLast,                \* last-update time stored in the rrd database
  lastRead,               \* updateDatabase: lastDataPointTime
  issued,                 \* time stamps of the rrdtool update commands of
                          \* the current updateDatabase call
  cycleSteps,             \* history: calls made in the current poll cycle
  httpLog,                \* history: responses of this cycle's requests
  written,                \* history: files written in the current cycle
  effects,                \* history: kinds of external action since start
  dbCalls,                \* history: time and outcome of each npw updateDatabase
  hadSuccess,             \* history: an earlier poll cycle succeeded
  consecFails,            \* history: consecutive failed poll cycles
  offlineCalled,          \* history: setStatusToOffline ran in this cycle
  chartsStarted,          \* history: chart processes started this iteration
  chartProc               \* main: p, the chart process started last

\* the state of the ft991 module (ft991utility/ft991.py) and of its caller
VARIABLES
  debug,                  \* ft991.debug
  ptrDevice,              \* ft991.ptrDevice: "None" or "open"
  ftPc,                   \* "init", "ready" (begin has returned) or "exited"
  ftCall,                 \* the last set* call: function, argument, outcome
  portWrites,             \* commands the last call wrote to the serial port
  portReads,              \* receiveSerial calls the last call made
  nCalls                  \* number of set* calls made

\* receiveSerial (ft991utility/ft991.py, writememory/ft991.py) and getAnswer
\* (passthrough.py)
VARIABLES
  rxVariant,              \* which of the three copies runs
  rxPending,              \* characters the device has yet to send
  rxWaiting,              \* characters waiting in the serial read buffer
  rxAnswer,               \* answer
  rxPc,                   \* "reading", "returned", "raised" or "exited"
  rxCharCount             \* charCount

\* ft991utility.py
VARIABLES
  bkPc,                   \* "menu", "crashed" (uncaught exception) or "exited"
  radioMem,               \* the radio's memory locations
  memFile,                \* the memory settings file: NoFile or its lines
  bkRan,                  \* the menu commands run so far
  bkExc,                  \* the exception that ended the last command
  restSent                \* what the restore has sent to the radio

\* an i2cmux object (nodepower/bin/i2cmux/i2cmux.py)
VARIABLES
  muxPc,                  \* position in the current call
  muxReg,                 \* control register of the TCA9548A
  muxConfig,              \* config the object was constructed with
  muxOp,                  \* the method being called
  muxChannel,             \* its channel argument
  muxCalls                \* number of calls made

agentVars == << agent, pc, rrdExists, exitStatus, signalled, failedUpdateCount,
                online, files, iter, currentTime, lastDataRequestTime,
                lastChartUpdateTime, lastDatabaseUpdateTime, polled, result,
                sData, ldData, rrdLast, lastRead, issued, cycleSteps, httpLog,
                written, effects, dbCalls, hadSuccess, consecFails,
                offlineCalled, chartsStarted, chartProc >>

radioVars == << debug, ptrDevice, ftPc, ftCall, portWrites, portReads, nCalls >>

\* everything that is not part of an agent process
serialVars == << rxVariant, rxPending, rxWaiting, rxAnswer, rxPc, rxCharCount >>

backupVars == << bkPc, radioMem, memFile, bkRan, bkExc, restSent >>

muxVars == << muxPc, muxReg, muxConfig, muxOp, muxChannel, muxCalls >>

deviceVars == << radioVars, serialVars, backupVars, muxVars >>

\* what the actions of one program leave alone: the other programs
notRadioVars == << agentVars, serialVars, backupVars, muxVars >>

notSerialVars == << agentVars, radioVars, backupVars, muxVars >>

notBackupVars == << agentVars, radioVars, serialVars, muxVars >>

notMuxVars == << agentVars, radioVars, serialVars, backupVars >>

vars == << agentVars, deviceVars >>

NoCall == [fn |-> "none", arg |-> "none", outcome |-> "none", exc |-> "none"]

\* no ft991 program is running
RadioParked ==
  /\ debug = FALSE
  /\ ptrDevice = "None"
  /\ ftPc = "exited"
  /\ ftCall = NoCall
  /\ portWrites = << >>
  /\ portReads = 0
  /\ nCalls = 0

\* no receiveSerial call is in progress
SerialParked ==
  /\ rxVariant = "none"
  /\ rxPending = << >>
  /\ rxWaiting = << >>
  /\ rxAnswer = << >>
  /\ rxPc = "exited"
  /\ rxCharCount = 0

NoFile == [exists |-> FALSE, lines |-> << >>]

NoExc == [backup |-> "none", restore |-> "none"]

\* ft991utility.py is not running
BackupParked ==
  /\ bkPc = "exited"
  /\ radioMem = << >>
  /\ memFile = NoFile
  /\ bkRan = {}
  /\ bkExc = NoExc
  /\ restSent = << >>

\* no i2cmux object exists
MuxParked ==
  /\ muxPc = "exited"
  /\ muxReg = 0
  /\ muxConfig = 0
  /\ muxOp = "none"
  /\ muxChannel = 0
  /\ muxCalls = 0

\* only the agent runs
DevicesParked == RadioParked /\ SerialParked /\ BackupParked /\ MuxParked

\* --------------------------------------------------------------- data sets
Point == [time : 1..MaxDataTime, ok : BOOLEAN]

RECURSIVE SeqsUpTo(_, _)
SeqsUpTo(S, n) ==
  IF n = 0 THEN { << >> }
  ELSE LET shorter == SeqsUpTo(S, n - 1)
       IN  shorter \cup { Append(s, x) : s \in { t \in shorter : Len(t) = n - 1 }, x \in S }

NoneResp == [isNone |-> TRUE, valid |-> FALSE, points |-> << >>]

\* What getArednNodeData can return: None, a string that does not parse,
\* or a string holding a list of data points.
Responses(a) ==
  { NoneResp, [isNone |-> FALSE, valid |-> FALSE, points |-> << >>] } \cup
  IF a \in RetryAgents
  THEN { [isNone |-> FALSE, valid |-> TRUE, points |-> p] : p \in SeqsUpTo(Point, MaxPoints) }
  ELSE { [isNone |-> FALSE, valid |-> TRUE, points |-> << >>] }

\* ------------------------------------------------------------ configuration
\* dataRequestInterval after getCLarguments
dataRequestInterval(a) ==
  CASE a = "npw" -> NPW_DEFAULT_SENSOR_POLLING_INTERVAL
    [] a = "fw320" -> FW320_DEFAULT_DATA_REQUEST_INTERVAL
    [] OTHER -> RequestIntervalArg

\* the interval the main loop compares and sleeps with
requestIntervalSeconds(a) ==
  IF a = "npw" THEN dataRequestInterval(a) ELSE dataRequestInterval(a) * 60

\* the interval the chart test of the main loop compares with
chartUpdateInterval(a) ==
  CASE a = "npw" -> NPW_CHART_UPDATE_INTERVAL
    [] a = "fw320" -> FW320_CHART_UPDATE_INTERVAL * 60
    [] OTHER -> dataRequestInterval(a)

\* Seconds between two readings of time.time() at the top of the loop:
\* the loop sleeps for the rest of the request interval, so at least the
\* interval passes (exactly the interval, a little more, or a long stall
\* that exceeds the database or the chart interval).
Delays(a) ==
  { requestIntervalSeconds(a), requestIntervalSeconds(a) + 1 } \cup
  (IF a = "npw" THEN { NPW_DATABASE_UPDATE_INTERVAL + 1 } ELSE { }) \cup
  { d \in { chartUpdateInterval(a) + 1 } : d > requestIntervalSeconds(a) }


\* ------------------------------------------------------------ status logic
\* Faulty variant: clears the flag and leaves the output data file in place.
npwSetStatusToOfflineKeepFile(f) == [files |-> f, online |-> FALSE]

\* npwAgent.setStatusToOffline: remove the output data file, clear the flag.
npwSetStatusToOffline(f) ==
  [files |-> [f EXCEPT !.output = FALSE], online |-> FALSE]

\* Faulty variant: tests  failedUpdateCount > _MAX_FAILED_DATA_REQUESTS.
setStatusGreater(updateSuccess, count, onl, f) ==
  LET c1 == IF updateSuccess THEN 0 ELSE count + 1
      o1 == IF updateSuccess THEN TRUE ELSE onl
  IN  IF c1 > NPW_MAX_FAILED_DATA_REQUESTS
      THEN [count |-> c1, online |-> npwSetStatusToOffline(f).online,
            files |-> npwSetStatusToOffline(f).files, offline |-> TRUE]
      ELSE [count |-> c1, online |-> o1, files |-> f, offline |-> FALSE]

\* npwAgent.setStatus
setStatus(updateSuccess, count, onl, f) ==
  LET c1 == IF updateSuccess THEN 0 ELSE count + 1
      o1 == IF updateSuccess THEN TRUE ELSE onl
  IN  IF c1 >= NPW_MAX_FAILED_DATA_REQUESTS
      THEN [count |-> c1, online |-> npwSetStatusToOffline(f).online,
            files |-> npwSetStatusToOffline(f).files, offline |-> TRUE]
      ELSE [count |-> c1, online |-> o1, files |-> f, offline |-> FALSE]

\* arednsigAgent.setStatusToOffline: remove both output files, clear the flag.
arednSetStatusToOffline(f) ==
  [files |-> [output |-> FALSE, small |-> FALSE], online |-> FALSE]

\* Faulty variant: allows one failed request before it sets the node offline.
setNodeStatusAllowOne(updateSuccess, count, onl, f) ==
  LET c1 == IF updateSuccess THEN 0 ELSE count + 1
      o1 == IF updateSuccess THEN TRUE ELSE onl
  IN  IF c1 > AREDN_MAX_FAILED_DATA_REQUESTS + 1
      THEN [count |-> c1, online |-> arednSetStatusToOffline(f).online,
            files |-> arednSetStatusToOffline(f).files, offline |-> TRUE]
      ELSE [count |-> c1, online |-> o1, files |-> f, offline |-> FALSE]

\* arednsigAgent.setNodeStatus (the same text in the three variants)
setNodeStatus(updateSuccess, count, onl, f) ==
  LET c1 == IF updateSuccess THEN 0 ELSE count + 1
      o1 == IF updateSuccess THEN TRUE ELSE onl
  IN  IF c1 > AREDN_MAX_FAILED_DATA_REQUESTS
      THEN [count |-> c1, online |-> arednSetStatusToOffline(f).online,
            files |-> arednSetStatusToOffline(f).files, offline |-> TRUE]
      ELSE [count |-> c1, online |-> o1, files |-> f, offline |-> FALSE]

\* terminateAgentProcess: the files that exist after the handler has run.
\* npwAgent calls setStatusToOffline, the arednsig agents remove both files.
terminateFiles(a, f) ==
  IF a = "npw" THEN npwSetStatusToOffline(f).files
  ELSE [output |-> FALSE, small |-> FALSE]

\* the signals that reach terminateAgentProcess
Signals(a) ==
  IF a = "npw" THEN {"SIGTERM", "SIGINT"} ELSE {"SIGTERM", "KeyboardInterrupt"}

\* ------------------------------------------------------- fetch, parse, convert
\* Faulty variant: gives up after the first request.
afterFirstRequestNoRetry(a, r) ==
  IF r.isNone THEN [pc |-> "status", result |-> FALSE]
  ELSE [pc |-> "parse", result |-> TRUE]

\* main: what follows the first getArednNodeData.  Returns the next
\* position and the value of result.
afterFirstRequest(a, r) ==
  IF r.isNone
  THEN IF a \in RetryAgents
       THEN [pc |-> "retry", result |-> TRUE]
       ELSE [pc |-> "status", result |-> FALSE]
  ELSE [pc |-> "parse", result |-> TRUE]

\* main: what follows the second getArednNodeData (bin and fw319)
afterRetry(r) ==
  IF r.isNone THEN [pc |-> "status", result |-> FALSE]
  ELSE [pc |-> "parse", result |-> TRUE]

\* Python  s[-n:]
LastN(s, n) ==
  IF n = 0 \/ Len(s) <= n THEN s ELSE SubSeq(s, Len(s) - n + 1, Len(s))

\* parseNodeData: the list stored in ldData and the return value.
\* bin raises "truncated list" when fewer than iTrail points remain,
\* fw319 accepts any length, fw320 scans the status page for one reading.
parseNodeData(a, r, now) ==
  LET iTrail == dataRequestInterval(a)
      ldTmp == LastN(r.points, iTrail)
  IN  CASE a = "fw320" ->
             IF r.valid THEN [ok |-> TRUE, ld |-> << [time |-> now, ok |-> TRUE] >>]
             ELSE [ok |-> FALSE, ld |-> << >>]
        [] a = "bin" ->
             IF r.valid /\ Len(ldTmp) = iTrail THEN [ok |-> TRUE, ld |-> ldTmp]
             ELSE [ok |-> FALSE, ld |-> << >>]
        [] OTHER ->
             IF r.valid THEN [ok |-> TRUE, ld |-> ldTmp]
             ELSE [ok |-> FALSE, ld |-> << >>]

RECURSIVE DropBad(_)
DropBad(ld) ==
  IF ld = << >> THEN << >>
  ELSE IF Head(ld).ok THEN << Head(ld) >> \o DropBad(Tail(ld))
       ELSE DropBad(Tail(ld))

\* convertData: bin fails on the first item that does not convert, fw319
\* discards such items and fails only when nothing is left.
convertData(a, ld) ==
  IF a = "bin"
  THEN [ok |-> \A i \in 1..Len(ld) : ld[i].ok, ld |-> ld]
  ELSE [ok |-> DropBad(ld) # << >>, ld |-> DropBad(ld)]

\* ------------------------------------------------------------ updateDatabase
\* Faulty variant: keeps a data point whose time equals the last update.
discardPointStrict(t, lastDataPointTime) ==
  IF lastDataPointTime = PyNone THEN FALSE ELSE t < lastDataPointTime

\* the test that throws out a data point
discardPoint(t, lastDataPointTime) == Py2LessEq(t, lastDataPointTime)

\* The loop of the bin / fw319 updateDatabase over the items from index i.
\* rrd is the database's last-update time, cmds the commands issued so far,
\* failAt the ordinal of the issued command that fails for a reason of its
\* own (0: none).  rrdtool also rejects a time stamp that is not later than
\* the database's last update.
RECURSIVE UpdateLoop(_, _, _, _, _, _)
UpdateLoop(ld, i, lastDataPointTime, rrd, cmds, failAt) ==
  IF i > Len(ld) THEN [ok |-> TRUE, rrd |-> rrd, issued |-> cmds]
  ELSE IF discardPoint(ld[i].time, lastDataPointTime)
       THEN UpdateLoop(ld, i + 1, lastDataPointTime, rrd, cmds, failAt)
       ELSE LET cmds1 == Append(cmds, ld[i].time)
            IN  IF ld[i].time <= rrd \/ Len(cmds1) = failAt
                THEN [ok |-> FALSE, rrd |-> rrd, issued |-> cmds1]
                ELSE UpdateLoop(ld, i + 1, lastDataPointTime, ld[i].time, cmds1, failAt)

\* -------------------------------------------------------------------- Init
\* The state when main() has installed its signal handlers.  The output
\* files of an earlier run may still exist; npwAgent has no small file.
\* Importing npwAgent has created the three sensor objects, each of which
\* writes its configuration register (and reads nothing).
Init ==
  /\ agent \in Agents
  /\ pc = "start"
  /\ rrdExists \in BOOLEAN
  /\ exitStatus = PyNone
  /\ signalled = "none"
  /\ failedUpdateCount = 0
  /\ online = (agent # "npw")
  /\ files \in { [output |-> x, small |-> x /\ agent # "npw"] : x \in BOOLEAN }
  /\ iter = 0
  /\ currentTime = 0
  /\ lastDataRequestTime = 0 - 1
  /\ lastChartUpdateTime = 0 - 1
  /\ lastDatabaseUpdateTime = 0 - 1
  /\ polled = FALSE
  /\ result = TRUE
  /\ sData = NoneResp
  /\ ldData = << >>
  /\ rrdLast = 0
  /\ lastRead = PyNone
  /\ issued = << >>
  /\ cycleSteps = << >>
  /\ httpLog = << >>
  /\ written = {}
  /\ effects = IF agent = "npw" THEN {"sensorconfig"} ELSE {}
  /\ dbCalls = << >>
  /\ hadSuccess = FALSE
  /\ consecFails = 0
  /\ offlineCalled = FALSE
  /\ chartsStarted = 0
  /\ chartProc = "none"
  /\ DevicesParked

\* no agent process is running
AgentParked ==
  /\ agent = "npw"
  /\ pc = "exited"
  /\ rrdExists = FALSE
  /\ exitStatus = PyNone
  /\ signalled = "none"
  /\ failedUpdateCount = 0
  /\ online = FALSE
  /\ files = [output |-> FALSE, small |-> FALSE]
  /\ iter = 0
  /\ currentTime = 0
  /\ lastDataRequestTime = 0 - 1
  /\ lastChartUpdateTime = 0 - 1
  /\ lastDatabaseUpdateTime = 0 - 1
  /\ polled = FALSE
  /\ result = TRUE
  /\ sData = NoneResp
  /\ ldData = << >>
  /\ rrdLast = 0
  /\ lastRead = PyNone
  /\ issued = << >>
  /\ cycleSteps = << >>
  /\ httpLog = << >>
  /\ written = {}
  /\ effects = {}
  /\ dbCalls = << >>
  /\ hadSuccess = FALSE
  /\ consecFails = 0
  /\ offlineCalled = FALSE
  /\ chartsStarted = 0
  /\ chartProc = "none"

Step(op, ok) == [op |-> op, ok |-> ok]

Running == pc # "exited"

\* ----------------------------------------------------------------- start-up
\* main: "Exit with error if rrdtool database does not exist."
\* Faulty variant: goes on into the main loop without a database.
afterCheckRrdNoExit(exists) == [pc |-> "loop", exitStatus |-> PyNone]

afterCheckRrd(exists) ==
  IF exists THEN [pc |-> "loop", exitStatus |-> PyNone]
  ELSE [pc |-> "exited", exitStatus |-> 1]

CheckRrd ==
  /\ pc = "start"
  /\ pc' = afterCheckRrd(rrdExists).pc
  /\ exitStatus' = afterCheckRrd(rrdExists).exitStatus
  /\ UNCHANGED deviceVars
  /\ UNCHANGED << agent, rrdExists, signalled, failedUpdateCount, online,
                  files, iter, currentTime, lastDataRequestTime,
                  lastChartUpdateTime, lastDatabaseUpdateTime, polled, result,
                  sData, ldData, rrdLast, lastRead, issued, cycleSteps,
                  httpLog, written, effects, dbCalls, hadSuccess, consecFails, offlineCalled, chartsStarted, chartProc >>

\* -------------------------------------------------------------- top of loop
\* main: currentTime = time.time() and the test of the request interval.
LoopTop ==
  /\ pc = "loop"
  /\ iter < IterBound(agent)
  /\ \E d \in Delays(agent) :
       LET now == IF iter = 0 THEN StartTime ELSE currentTime + d
           due == now - lastDataRequestTime > requestIntervalSeconds(agent)
       IN  /\ currentTime' = now
           /\ polled' = due
           /\ lastDataRequestTime' = IF due THEN now ELSE lastDataRequestTime
           /\ pc' = IF ~due THEN "chart"
                    ELSE IF agent = "npw" THEN "sensor" ELSE "fetch"
           /\ result' = IF due /\ agent # "npw" THEN TRUE ELSE result
           /\ ldData' = IF due THEN << >> ELSE ldData
  /\ iter' = iter + 1
  /\ cycleSteps' = << >>
  /\ httpLog' = << >>
  /\ written' = {}
  /\ issued' = << >>
  /\ offlineCalled' = FALSE
  /\ chartsStarted' = 0
  /\ lastRead' = PyNone
  /\ UNCHANGED deviceVars
  /\ UNCHANGED << agent, rrdExists, exitStatus, signalled, failedUpdateCount,
                  online, files, lastChartUpdateTime, lastDatabaseUpdateTime,
                  sData, rrdLast, effects, dbCalls, hadSuccess, consecFails,
                  chartProc >>

\* ----------------------------------------------------------- npwAgent cycle
\* getSensorData: the five sensor reads succeed or one raises.
GetSensorData ==
  /\ pc = "sensor"
  /\ \E ok \in BOOLEAN :
       /\ result' = ok
       /\ cycleSteps' = Append(cycleSteps, Step("sensor", ok))
       /\ pc' = IF ok THEN "write" ELSE "status"
  /\ effects' = effects \cup {"sensor"}
  /\ UNCHANGED deviceVars
  /\ UNCHANGED << agent, rrdExists, exitStatus, signalled, failedUpdateCount,
                  online, files, iter, currentTime, lastDataRequestTime,
                  lastChartUpdateTime, lastDatabaseUpdateTime, polled, sData,
                  ldData, rrdLast, lastRead, issued, httpLog, written,
                  dbCalls, hadSuccess, consecFails,
                  offlineCalled, chartsStarted, chartProc >>

\* What open(file, "w") / write / close can do: succeed, fail in open
\* (the file is left as it was) or fail in write (the file was created).
WriteOutcomes == {"ok", "openfail", "writefail"}

\* the existence of a file after an attempt to write it
afterWrite(existed, outcome) == IF outcome = "openfail" THEN existed ELSE TRUE

\* main: the test that decides whether updateDatabase runs in this cycle
npwDatabaseDue(res, now, last) ==
  res /\ now - last > NPW_DATABASE_UPDATE_INTERVAL

\* writeOutputFile of npwAgent and the test that follows it in main
WriteOutputFile ==
  /\ pc = "write"
  /\ agent = "npw"
  /\ \E w \in WriteOutcomes :
       /\ result' = (w = "ok")
       /\ files' = [files EXCEPT !.output = afterWrite(files.output, w)]
       /\ written' = IF w = "openfail" THEN written ELSE written \cup {"output"}
       /\ cycleSteps' = Append(cycleSteps, Step("write", w = "ok"))
       /\ pc' = IF npwDatabaseDue(w = "ok", currentTime, lastDatabaseUpdateTime)
                THEN "update" ELSE "status"
  /\ effects' = effects \cup {"write"}
  /\ UNCHANGED deviceVars
  /\ UNCHANGED << agent, rrdExists, exitStatus, signalled, failedUpdateCount,
                  online, iter, currentTime, lastDataRequestTime,
                  lastChartUpdateTime, lastDatabaseUpdateTime, polled, sData,
                  ldData, rrdLast, lastRead, issued, httpLog, dbCalls,
                  hadSuccess, consecFails, offlineCalled,
                  chartsStarted, chartProc >>

\* Faulty variant: records the time of successful updates only.
npwLastDatabaseUpdateTimeOnSuccess(now, last, ok) == IF ok THEN now ELSE last

\* main: lastDatabaseUpdateTime after an updateDatabase call at time now
npwLastDatabaseUpdateTime(now, last, ok) == now

\* main: lastDatabaseUpdateTime = currentTime; result = updateDatabase(dData)
NpwUpdateDatabase ==
  /\ pc = "update"
  /\ agent = "npw"
  /\ \E ok \in BOOLEAN :
       /\ result' = ok
       /\ lastDatabaseUpdateTime' =
            npwLastDatabaseUpdateTime(currentTime, lastDatabaseUpdateTime, ok)
       /\ cycleSteps' = Append(cycleSteps, Step("update", ok))
  /\ issued' = << currentTime >>
  /\ dbCalls' = Append(dbCalls, [time |-> currentTime, ok |-> result'])
  /\ effects' = effects \cup {"update"}
  /\ pc' = "status"
  /\ UNCHANGED deviceVars
  /\ UNCHANGED << agent, rrdExists, exitStatus, signalled, failedUpdateCount,
                  online, files, iter, currentTime, lastDataRequestTime,
                  lastChartUpdateTime, polled, sData, ldData, rrdLast,
                  lastRead, httpLog, written, hadSuccess,
                  consecFails, offlineCalled, chartsStarted, chartProc >>

\* main: setStatus(result)
SetStatus ==
  /\ pc = "status"
  /\ agent = "npw"
  /\ LET st == setStatus(result, failedUpdateCount, online, files)
     IN  /\ failedUpdateCount' = st.count
         /\ online' = st.online
         /\ files' = st.files
         /\ offlineCalled' = st.offline
  /\ cycleSteps' = Append(cycleSteps, Step("status", result))
  /\ hadSuccess' = (hadSuccess \/ result)
  /\ consecFails' = IF result THEN 0 ELSE consecFails + 1
  /\ pc' = "chart"
  /\ UNCHANGED deviceVars
  /\ UNCHANGED << agent, rrdExists, exitStatus, signalled, iter, currentTime,
                  lastDataRequestTime, lastChartUpdateTime,
                  lastDatabaseUpdateTime, polled, result, sData, ldData,
                  rrdLast, lastRead, issued, httpLog, written, effects,
                  dbCalls, chartsStarted, chartProc >>

\* ----------------------------------------------------------- arednsig cycle
\* main: sData = getArednNodeData()
GetArednNodeData ==
  /\ pc = "fetch"
  /\ \E r \in Responses(agent) :
       /\ sData' = r
       /\ httpLog' = Append(httpLog, r)
       /\ cycleSteps' = Append(cycleSteps, Step("fetch", ~r.isNone))
       /\ pc' = afterFirstRequest(agent, r).pc
       /\ result' = afterFirstRequest(agent, r).result
  /\ effects' = effects \cup {"http"}
  /\ UNCHANGED deviceVars
  /\ UNCHANGED << agent, rrdExists, exitStatus, signalled, failedUpdateCount,
                  online, files, iter, currentTime, lastDataRequestTime,
                  lastChartUpdateTime, lastDatabaseUpdateTime, polled, ldData,
                  rrdLast, lastRead, issued, written, dbCalls, hadSuccess, consecFails, offlineCalled, chartsStarted, chartProc >>

\* main: time.sleep(5); sData = getArednNodeData()   (bin and fw319)
RetryRequest ==
  /\ pc = "retry"
  /\ \E r \in Responses(agent) :
       /\ sData' = r
       /\ httpLog' = Append(httpLog, r)
       /\ cycleSteps' = Append(cycleSteps, Step("fetch", ~r.isNone))
       /\ pc' = afterRetry(r).pc
       /\ result' = afterRetry(r).result
  /\ effects' = effects \cup {"http"}
  /\ UNCHANGED deviceVars
  /\ UNCHANGED << agent, rrdExists, exitStatus, signalled, failedUpdateCount,
                  online, files, iter, currentTime, lastDataRequestTime,
                  lastChartUpdateTime, lastDatabaseUpdateTime, polled, ldData,
                  rrdLast, lastRead, issued, written, dbCalls, hadSuccess, consecFails, offlineCalled, chartsStarted, chartProc >>

\* main: result = parseNodeData(sData, ldData)
ParseNodeData ==
  /\ pc = "parse"
  /\ LET p == parseNodeData(agent, sData, currentTime)
     IN  /\ result' = p.ok
         /\ ldData' = p.ld
         /\ cycleSteps' = Append(cycleSteps, Step("parse", p.ok))
         /\ pc' = IF ~p.ok THEN "status"
                  ELSE IF agent = "fw320" THEN "update" ELSE "convert"
  /\ UNCHANGED deviceVars
  /\ UNCHANGED << agent, rrdExists, exitStatus, signalled, failedUpdateCount,
                  online, files, iter, currentTime, lastDataRequestTime,
                  lastChartUpdateTime, lastDatabaseUpdateTime, polled, sData,
                  rrdLast, lastRead, issued, httpLog, written, effects,
                  dbCalls, hadSuccess, consecFails,
                  offlineCalled, chartsStarted, chartProc >>

\* main: result = convertData(ldData)   (bin and fw319)
ConvertData ==
  /\ pc = "convert"
  /\ LET c == convertData(agent, ldData)
     IN  /\ result' = c.ok
         /\ ldData' = c.ld
         /\ cycleSteps' = Append(cycleSteps, Step("convert", c.ok))
         /\ pc' = IF c.ok THEN "update" ELSE "status"
  /\ UNCHANGED deviceVars
  /\ UNCHANGED << agent, rrdExists, exitStatus, signalled, failedUpdateCount,
                  online, files, iter, currentTime, lastDataRequestTime,
                  lastChartUpdateTime, lastDatabaseUpdateTime, polled, sData,
                  rrdLast, lastRead, issued, httpLog, written, effects,
                  dbCalls, hadSuccess, consecFails,
                  offlineCalled, chartsStarted, chartProc >>

\* main: result = updateDatabase(ldData) of bin and fw319.  The call reads
\* the last-update time (None when "rrdtool lastupdate" fails) and then
\* issues one "rrdtool update" per data point it does not discard.
ArednUpdateDatabase ==
  /\ pc = "update"
  /\ agent \in RetryAgents
  /\ \E rd \in {rrdLast, PyNone}, failAt \in 0..Len(ldData) :
       LET run == UpdateLoop(ldData, 1, rd, rrdLast, << >>, failAt)
       IN  /\ lastRead' = rd
           /\ issued' = run.issued
           /\ rrdLast' = run.rrd
           /\ result' = run.ok
           /\ cycleSteps' = Append(cycleSteps, Step("update", run.ok))
           /\ effects' = effects \cup {"lastupdate"} \cup
                           IF run.issued = << >> THEN {} ELSE {"update"}
           /\ pc' = IF run.ok THEN "write" ELSE "status"
  /\ UNCHANGED deviceVars
  /\ UNCHANGED << agent, rrdExists, exitStatus, signalled, failedUpdateCount,
                  online, files, iter, currentTime, lastDataRequestTime,
                  lastChartUpdateTime, lastDatabaseUpdateTime, polled, sData,
                  ldData, httpLog, written, dbCalls, hadSuccess, consecFails, offlineCalled, chartsStarted, chartProc >>

\* main: result = updateDatabase(dData) of fw320: one "rrdtool update".
Fw320UpdateDatabase ==
  /\ pc = "update"
  /\ agent = "fw320"
  /\ \E ok \in BOOLEAN :
       /\ result' = ok
       /\ cycleSteps' = Append(cycleSteps, Step("update", ok))
       /\ pc' = IF ok THEN "write" ELSE "status"
  /\ issued' = << ldData[1].time >>
  /\ effects' = effects \cup {"update"}
  /\ UNCHANGED deviceVars
  /\ UNCHANGED << agent, rrdExists, exitStatus, signalled, failedUpdateCount,
                  online, files, iter, currentTime, lastDataRequestTime,
                  lastChartUpdateTime, lastDatabaseUpdateTime, polled, sData,
                  ldData, rrdLast, lastRead, httpLog, written, dbCalls,
                  hadSuccess, consecFails, offlineCalled,
                  chartsStarted, chartProc >>

\* writeOutputDataFile: is the node response written to _OUTPUT_DATA_FILE
\* once the small file has been written?  bin returns before that code;
\* fw319 and fw320 run it only on a relay server.
reachesOutputDataFile(a) == IF a = "bin" THEN FALSE ELSE RELAY_SERVER

\* Faulty variant: assigns the return value of writeOutputDataFile to result.
resultAfterWriteAssigned(res, writeOk) == writeOk

\* main: result after the call  writeOutputDataFile(sData, ldData), whose
\* return value is dropped.
resultAfterWrite(res, writeOk) == res

WriteOutputDataFile ==
  /\ pc = "write"
  /\ agent \in ArednAgents
  /\ \E w \in WriteOutcomes, w2 \in WriteOutcomes :
       LET second == w = "ok" /\ reachesOutputDataFile(agent)
       IN  /\ w2 = "ok" \/ second
           /\ files' = [small |-> afterWrite(files.small, w),
                        output |-> IF second THEN afterWrite(files.output, w2)
                                   ELSE files.output]
           /\ written' = (IF w = "openfail" THEN {} ELSE {"small"}) \cup
                         (IF second /\ w2 # "openfail" THEN {"output"} ELSE {})
           /\ cycleSteps' = Append(cycleSteps,
                                   Step("write", w = "ok" /\ (second => w2 = "ok")))
           /\ result' = resultAfterWrite(result, w = "ok" /\ (second => w2 = "ok"))
  /\ effects' = effects \cup {"write"}
  /\ pc' = "status"
  /\ UNCHANGED deviceVars
  /\ UNCHANGED << agent, rrdExists, exitStatus, signalled, failedUpdateCount,
                  online, iter, currentTime, lastDataRequestTime,
                  lastChartUpdateTime, lastDatabaseUpdateTime, polled,
                  sData, ldData, rrdLast, lastRead, issued, httpLog,
                  dbCalls, hadSuccess, consecFails,
                  offlineCalled, chartsStarted, chartProc >>

\* main: setNodeStatus(result)
SetNodeStatus ==
  /\ pc = "status"
  /\ agent \in ArednAgents
  /\ LET st == setNodeStatus(result, failedUpdateCount, online, files)
     IN  /\ failedUpdateCount' = st.count
         /\ online' = st.online
         /\ files' = st.files
         /\ offlineCalled' = st.offline
  /\ cycleSteps' = Append(cycleSteps, Step("status", result))
  /\ hadSuccess' = (hadSuccess \/ result)
  /\ consecFails' = IF result THEN 0 ELSE consecFails + 1
  /\ pc' = "chart"
  /\ UNCHANGED deviceVars
  /\ UNCHANGED << agent, rrdExists, exitStatus, signalled, iter, currentTime,
                  lastDataRequestTime, lastChartUpdateTime,
                  lastDatabaseUpdateTime, polled, result, sData, ldData,
                  rrdLast, lastRead, issued, httpLog, written, effects,
                  dbCalls, chartsStarted, chartProc >>

\* ------------------------------------------------------------------- charts
\* Faulty variant: starts a chart process in every loop iteration.
chartDueEveryIteration(a, now, last) == now - last > 0

\* main: the test of the chart interval
chartDue(a, now, last) == now - last > chartUpdateInterval(a)

\* main: "At the chart generation interval, generate charts":
\* p = multiprocessing.Process(target=generateGraphs); p.start(), and on
\* to the sleep at the end of the loop body; p is never joined.
StartCharts ==
  /\ pc = "chart"
  /\ IF chartDue(agent, currentTime, lastChartUpdateTime)
     THEN /\ lastChartUpdateTime' = currentTime
          /\ chartsStarted' = chartsStarted + 1
          /\ effects' = effects \cup {"chart"}
          /\ chartProc' = "running"
     ELSE UNCHANGED << lastChartUpdateTime, chartsStarted, effects, chartProc >>
  /\ pc' = "loop"
  /\ UNCHANGED deviceVars
  /\ UNCHANGED << agent, rrdExists, exitStatus, signalled, failedUpdateCount,
                  online, files, iter, currentTime, lastDataRequestTime,
                  lastDatabaseUpdateTime, polled, result, sData, ldData,
                  rrdLast, lastRead, issued, cycleSteps, httpLog, written,
                  dbCalls, hadSuccess, consecFails,
                  offlineCalled >>

\* generateGraphs, the body of the chart process, runs to its end in a
\* process of its own while the agent goes on.  createGraph returns True,
\* or False after "rrdtool graph failed"; generateGraphs drops that value
\* and returns nothing, so the process ends the same way in both cases.
GenerateGraphs ==
  /\ Running
  /\ chartProc = "running"
  /\ chartProc' = "ended"
  /\ UNCHANGED deviceVars
  /\ UNCHANGED << agent, pc, rrdExists, exitStatus, signalled,
                  failedUpdateCount, online, files, iter, currentTime,
                  lastDataRequestTime, lastChartUpdateTime,
                  lastDatabaseUpdateTime, polled, result, sData, ldData,
                  rrdLast, lastRead, issued, cycleSteps, httpLog, written,
                  effects, dbCalls, hadSuccess, consecFails, offlineCalled,
                  chartsStarted >>

\* ------------------------------------------------------------ signal handler
\* Faulty variant: the handler removes the files and returns to the interrupted code.
afterTerminateReturn(a, f, onl, at) ==
  [files |-> terminateFiles(a, f),
   online |-> IF a = "npw" THEN npwSetStatusToOffline(f).online ELSE onl,
   pc |-> at, exitStatus |-> PyNone]

\* terminateAgentProcess, entered for SIGTERM / SIGINT or from the
\* KeyboardInterrupt clause; sys.exit(0) ends the main thread wherever it is.
afterTerminate(a, f, onl, at) ==
  [files |-> terminateFiles(a, f),
   online |-> IF a = "npw" THEN npwSetStatusToOffline(f).online ELSE onl,
   pc |-> "exited", exitStatus |-> 0]

TerminateAgentProcess ==
  /\ Running
  /\ \E sig \in Signals(agent) : signalled' = sig
  /\ LET t == afterTerminate(agent, files, online, pc)
     IN  /\ files' = t.files
         /\ online' = t.online
         /\ pc' = t.pc
         /\ exitStatus' = t.exitStatus
  /\ UNCHANGED deviceVars
  /\ UNCHANGED << agent, rrdExists, failedUpdateCount, iter, currentTime,
                  lastDataRequestTime, lastChartUpdateTime,
                  lastDatabaseUpdateTime, polled, result, sData, ldData,
                  rrdLast, lastRead, issued, cycleSteps, httpLog, written,
                  effects, dbCalls, hadSuccess, consecFails,
                  offlineCalled, chartsStarted, chartProc >>

\* ---------------------------------------------------------- specification
Next ==
  \/ CheckRrd
  \/ LoopTop
  \/ GetSensorData
  \/ WriteOutputFile
  \/ NpwUpdateDatabase
  \/ SetStatus
  \/ GetArednNodeData
  \/ RetryRequest
  \/ ParseNodeData
  \/ ConvertData
  \/ ArednUpdateDatabase
  \/ Fw320UpdateDatabase
  \/ WriteOutputDataFile
  \/ SetNodeStatus
  \/ StartCharts
  \/ TerminateAgentProcess

\* the agent process alone: a chart process it has started is not followed
Spec == Init /\ [][Next]_vars

\* the agent process together with the chart process it started last
ChartNext == Next \/ GenerateGraphs

ChartSpec == Init /\ [][ChartNext]_vars

TypeOK ==
  /\ agent \in Agents
  /\ pc \in {"start", "loop", "sensor", "fetch", "retry", "parse", "convert",
             "update", "write", "status", "chart", "exited"}
  /\ exitStatus \in {PyNone, 0, 1}
  /\ failedUpdateCount \in 0..MaxIter
  /\ online \in BOOLEAN
  /\ result \in BOOLEAN
  /\ Len(httpLog) <= 2

\* ------------------------------------------------------------------ helpers
\* A poll cycle of this iteration has ended: setStatus / setNodeStatus has
\* returned and the main thread has not yet started the next iteration.
CycleEnded == polled /\ pc \in {"chart", "loop"}

Ran(op) == \E i \in 1..Len(cycleSteps) : cycleSteps[i].op = op

\* the outcome of the last call of op in this cycle
RanOk(op) ==
  \E i \in 1..Len(cycleSteps) :
    /\ cycleSteps[i].op = op
    /\ cycleSteps[i].ok
    /\ \A j \in (i + 1)..Len(cycleSteps) : cycleSteps[j].op # op

Rank(op) ==
  CASE op = "fetch" -> 1 [] op = "parse" -> 2 [] op = "convert" -> 3
    [] op = "update" -> 4 [] op = "write" -> 5 [] op = "status" -> 6
    [] OTHER -> 0

NoFiles == ~files.output /\ ~files.small

\* ---------------------------------------------------------------------- C1
\* C1: in npwAgent, at the end of every poll cycle, setStatus has set the
\* device offline (flag False, output file removed) exactly when the cycle
\* is the 2nd or a later consecutive failed one; a single failed cycle
\* after a successful one leaves the flag True and the file in place; a
\* successful cycle leaves failedUpdateCount = 0 and the flag True.
C1_OfflineAtSecondFailure ==
  (agent = "npw" /\ CycleEnded) =>
    /\ offlineCalled <=> consecFails >= 2
    /\ offlineCalled => (~online /\ ~files.output)
    /\ (consecFails = 1 /\ hadSuccess) => (online /\ files.output)
    /\ result => (failedUpdateCount = 0 /\ online)

\* a device that was online has been set offline by two failures in a row
C1_Witness ==
  agent = "npw" /\ CycleEnded /\ hadSuccess /\ consecFails = 2 /\ offlineCalled

\* ---------------------------------------------------------------------- C2
\* C2: in the three arednsig agents, at the end of every poll cycle
\* nodeOnline equals the result of that cycle, and failedUpdateCount is 0
\* after a successful cycle.
C2_NodeOnlineIsResult ==
  (agent \in ArednAgents /\ CycleEnded) =>
    /\ online = result
    /\ result => failedUpdateCount = 0
    /\ ~result => offlineCalled

\* a node that was online is offline after one failed cycle
C2_Witness ==
  /\ agent \in ArednAgents /\ CycleEnded
  /\ hadSuccess /\ consecFails = 1 /\ ~result /\ ~online

\* ---------------------------------------------------------------------- C3
\* C3 as stated: in every agent, a poll cycle that ended with the online
\* flag False left no output file.
C3_OfflineMeansNoFiles == (CycleEnded /\ ~online) => NoFiles

\* C3 amended: the statement holds for the arednsig agents, and for npwAgent
\* once failedUpdateCount has reached _MAX_FAILED_DATA_REQUESTS.
C3_OfflineByStatusMeansNoFiles ==
  ( /\ CycleEnded /\ ~online
    /\ agent = "npw" => failedUpdateCount >= NPW_MAX_FAILED_DATA_REQUESTS )
  => NoFiles

\* npwAgent wrote the output file in a cycle whose database update failed
\* for the second time in a row, and setStatus removed it again
C3_Witness ==
  /\ agent = "npw" /\ CycleEnded /\ ~online
  /\ failedUpdateCount >= NPW_MAX_FAILED_DATA_REQUESTS
  /\ "output" \in written /\ NoFiles

\* ---------------------------------------------------------------------- C4
\* C4: in the bin and fw319 agents a finished poll cycle made its calls in
\* the order fetch, parse, convert, updateDatabase, writeOutputDataFile,
\* each one only after all earlier ones succeeded, and then called
\* setNodeStatus exactly once, with True iff fetch, parse, convert and
\* updateDatabase succeeded, whatever writeOutputDataFile returned.
C4_StepOrderAndStatus ==
  (agent \in RetryAgents /\ CycleEnded) =>
    /\ \A i, j \in 1..Len(cycleSteps) :
         i < j => \/ Rank(cycleSteps[i].op) < Rank(cycleSteps[j].op)
                  \/ cycleSteps[i].op = "fetch" /\ cycleSteps[j].op = "fetch"
    /\ Ran("fetch")
    /\ Ran("parse") => RanOk("fetch")
    /\ Ran("convert") => RanOk("parse")
    /\ Ran("update") => RanOk("convert")
    /\ Ran("write") => RanOk("update")
    /\ Cardinality({ i \in 1..Len(cycleSteps) : cycleSteps[i].op = "status" }) = 1
    /\ RanOk("status") <=>
         (RanOk("fetch") /\ RanOk("parse") /\ RanOk("convert") /\ RanOk("update"))
    /\ result = RanOk("status")

\* writeOutputDataFile failed and setNodeStatus was still called with True
C4_Witness ==
  /\ agent \in RetryAgents /\ CycleEnded
  /\ Ran("write") /\ ~RanOk("write") /\ RanOk("status")

\* ---------------------------------------------------------------------- C5
\* C5: once the handler has run for a termination signal the process has
\* exited with status 0 and no output file exists, and from then on the
\* agent makes no further call and writes no file.
C5_TerminateRemovesFiles ==
  /\ [](signalled # "none" => (pc = "exited" /\ exitStatus = 0 /\ NoFiles))
  /\ [][signalled # "none" =>
          UNCHANGED << files, effects, cycleSteps, written, issued >>]_vars

\* an arednsig agent was stopped right after it wrote the small file
C5_Witness ==
  /\ agent \in ArednAgents /\ signalled # "none" /\ pc = "exited"
  /\ "small" \in written /\ ~Ran("status") /\ NoFiles

\* ---------------------------------------------------------------------- C6
\* the kinds of external action a poll cycle or the chart step performs
Work == {"sensor", "http", "lastupdate", "update", "write", "chart"}

\* C6: without an rrdtool database the agent never gets past start-up: it
\* has exited, with status 1 unless a signal ended it first, and it has
\* read no sensor, sent no request, run no rrdtool command, written no
\* file and started no chart process.
C6_NoDatabaseNoWork ==
  ~rrdExists =>
    /\ pc \in {"start", "exited"}
    /\ (pc = "exited" /\ signalled = "none") => exitStatus = 1
    /\ effects \cap Work = {}
    /\ cycleSteps = << >> /\ written = {} /\ iter = 0

C6_Witness == ~rrdExists /\ pc = "exited" /\ exitStatus = 1

\* ---------------------------------------------------------------------- C7
\* C7: in the bin and fw319 agents a poll cycle sends at most two requests,
\* the second only after the first returned None; parsing starts with the
\* data of the last request, which is not None; and a cycle goes from the
\* fetch step straight to setNodeStatus(False) only after two Nones.
C7_RetryOnce ==
  agent \in RetryAgents =>
    /\ Len(httpLog) <= 2
    /\ Len(httpLog) = 2 => httpLog[1].isNone
    /\ pc = "retry" => (Len(httpLog) = 1 /\ httpLog[1].isNone)
    /\ pc = "parse" => (~sData.isNone /\ sData = httpLog[Len(httpLog)])
    /\ (polled /\ pc \in {"status", "chart", "loop"} /\ ~Ran("parse")) =>
         (~result /\ Len(httpLog) = 2 /\ httpLog[1].isNone /\ httpLog[2].isNone)
    /\ (polled /\ pc \in {"status", "chart", "loop"} /\ Ran("parse")) =>
         ~httpLog[Len(httpLog)].isNone

\* the retry returned data and the cycle is about to parse it
C7_Witness ==
  /\ agent \in RetryAgents /\ pc = "parse"
  /\ Len(httpLog) = 2 /\ sData = httpLog[2] /\ sData.valid

\* ---------------------------------------------------------------------- C8
\* C8: in the bin and fw319 agents, when updateDatabase has read the
\* last-update time, every rrdtool update command it issued carries a
\* later time stamp, and a call in which every data point was discarded
\* issued no command and returned True.
C8_UpdatesAfterLastUpdate ==
  (agent \in RetryAgents /\ Ran("update") /\ lastRead # PyNone) =>
    /\ \A i \in 1..Len(issued) : issued[i] > lastRead
    /\ Len(issued) <= Cardinality({ i \in 1..Len(ldData) : ldData[i].time > lastRead })
    /\ (\A i \in 1..Len(ldData) : ldData[i].time <= lastRead) =>
         (issued = << >> /\ RanOk("update"))

\* one data point was discarded, a later one was written, the call succeeded
C8_Witness ==
  /\ agent \in RetryAgents /\ Ran("update") /\ RanOk("update")
  /\ lastRead # PyNone /\ Len(issued) = 1 /\ Len(ldData) = 2
  /\ ldData[1].time <= lastRead

\* ---------------------------------------------------------------------- C9
\* C9 as stated: a successful poll cycle of the bin agent in which
\* writeOutputDataFile returned True wrote the small file and the output
\* data file.
C9_BothFilesWritten ==
  (agent = "bin" /\ CycleEnded /\ result /\ RanOk("write")) =>
    written = {"small", "output"}

\* --------------------------------------------------------------------- C10
\* C10: in npwAgent any two updateDatabase calls lie more than
\* _DATABASE_UPDATE_INTERVAL apart in currentTime, whether or not the
\* earlier one failed, and updateDatabase runs only in a cycle whose sensor
\* read and output-file write succeeded.
C10_DatabaseUpdateInterval ==
  agent = "npw" =>
    /\ \A i, j \in 1..Len(dbCalls) :
         i < j => dbCalls[j].time - dbCalls[i].time > NPW_DATABASE_UPDATE_INTERVAL
    /\ (pc = "update" \/ Ran("update")) => (RanOk("sensor") /\ RanOk("write"))

\* a database update failed and the next poll cycle, less than the update
\* interval later, succeeded without calling updateDatabase
C10_Witness ==
  /\ agent = "npw" /\ CycleEnded /\ result /\ ~Ran("update")
  /\ Len(dbCalls) = 1 /\ ~dbCalls[1].ok
  /\ currentTime > dbCalls[1].time
  /\ currentTime - dbCalls[1].time <= NPW_DATABASE_UPDATE_INTERVAL

\* --------------------------------------------------------------------- C11
\* C11: the main loop starts at most one chart process per iteration, only
\* when more than the chart update interval has passed since the previous
\* start, and goes on to the next iteration without waiting for it; the
\* end of the chart process changes nothing in the agent: not its position,
\* result, failedUpdateCount, online flag or files.
C11_ChartProcessDetached ==
  /\ [](chartsStarted <= 1)
  /\ []((pc = "loop" /\ iter < IterBound(agent) /\ chartProc = "running")
          => ENABLED LoopTop)
  /\ [][chartsStarted' > chartsStarted =>
          /\ pc = "chart" /\ pc' = "loop"
          /\ currentTime - lastChartUpdateTime > chartUpdateInterval(agent)
          /\ lastChartUpdateTime' = currentTime
          /\ chartProc' = "running"]_vars
  /\ [][(chartProc = "running" /\ chartProc' = "ended") =>
          UNCHANGED << pc, result, failedUpdateCount, online, files,
                       lastChartUpdateTime >>]_vars

\* npwAgent has started its second chart process, in its third iteration,
\* more than _CHART_UPDATE_INTERVAL after the first
C11_Witness ==
  /\ agent = "npw" /\ iter = 3 /\ pc = "loop" /\ polled
  /\ chartsStarted = 1 /\ chartProc = "running"
  /\ currentTime - StartTime > NPW_CHART_UPDATE_INTERVAL

\* the agent is in the middle of a later poll cycle while the chart process
\* of the first iteration is still running
C11_StillRunning ==
  /\ iter = 2 /\ pc = "status" /\ chartsStarted = 0 /\ chartProc = "running"

\* ====================================================================
\* The FT991 CAT driver, ft991utility/ft991.py
\* ====================================================================
\* ------------------------------------------------------------ lookup tables
bState == ("OFF" :> "0") @@ ("ON" :> "1")

dMode ==
  ("LSB" :> "1") @@ ("USB" :> "2") @@ ("CW" :> "3") @@ ("FM" :> "4") @@
  ("AM" :> "5") @@ ("RTTY-LSB" :> "6") @@ ("CW-R" :> "7") @@
  ("DATA-LSB" :> "8") @@ ("RTTY-USB" :> "9") @@ ("DATA-FM" :> "A") @@
  ("FM-N" :> "B") @@ ("DATA-USB" :> "C") @@ ("AM-N" :> "D") @@ ("C4FM" :> "E")

dShift == ("OFF" :> "0") @@ ("+RPT" :> "1") @@ ("-RPT" :> "2")

dEncode ==
  ("OFF" :> "0") @@ ("ENC/DEC" :> "1") @@ ("TONE ENC" :> "2") @@
  ("DCS ENC/DEC" :> "4") @@ ("DCS" :> "3")

\* ------------------------------------------------------------------ inputs
\* a memory tag of n characters
TagOfLen(n) == [i \in 1..n |-> "A"]

\* '<mhz>.<hz as six decimals>', the form in which a frequency in MHz names
\* a whole number of hertz
Vfoas ==
  { [mhz |-> 0, hz |-> 29999], [mhz |-> 0, hz |-> 30000],
    [mhz |-> 450, hz |-> 0], [mhz |-> 450, hz |-> 1] }

\* a value that is a key of none of the lookup tables
BadKey == "?"

\* the dictionaries handed to setMemory: every combination of the numbers
\* next to the limits, a tag of 12 or 13 characters, and at most one
\* lookup item that is not a key of its table
MemInputs ==
  { [memloc |-> m, vfoa |-> v, clarfreq |-> c, tag |-> TagOfLen(t),
     rxclar |-> IF b = "rxclar" THEN BadKey ELSE "ON",
     txclar |-> IF b = "txclar" THEN BadKey ELSE "OFF",
     mode |-> IF b = "mode" THEN BadKey ELSE "FM",
     encode |-> IF b = "encode" THEN BadKey ELSE "TONE ENC",
     rpoffset |-> IF b = "rpoffset" THEN BadKey ELSE "+RPT"] :
    m \in {0, 1, 118, 119}, v \in Vfoas,
    c \in {0 - 10000, 0 - 9999, 9999, 10000}, t \in {12, 13},
    b \in {"none", "rxclar", "txclar", "mode", "encode", "rpoffset"} }

\* what the radio answers to a set command: nothing, or '?;' for a command
\* it rejects
Answers == {"", "?;"}

\* ------------------------------------------------------------- sendCommand
\* sendCommand: in debug mode return '' at once; otherwise sendSerial(sCmd)
\* and return what receiveSerial returns (ans).
sendCommand(dbg, sCmd, ans) ==
  IF dbg THEN [wrote |-> << >>, reads |-> 0, result |-> ""]
  ELSE [wrote |-> << sCmd >>, reads |-> 1, result |-> ans]

\* --------------------------------------------------------------- setMemory
Abs(n) == IF n < 0 THEN 0 - n ELSE n

NoCmd == [op |-> "none"]

\* int(float(dMem['vfoa']) * 1E6)
VfoaHz(vfoa) == vfoa.mhz * 1000000 + vfoa.hz

\* Faulty variant: accepts a tag of any length.
setMemoryAnyTag(dMem) ==
  LET iLocation == dMem.memloc
      iRxfreq == VfoaHz(dMem.vfoa)
      iClarfreq == dMem.clarfreq
  IN  IF iLocation < 1 \/ iLocation > 118
      THEN [exc |-> "Exception", cmd |-> NoCmd]
      ELSE IF iRxfreq < 30000 \/ iRxfreq > 450000000
      THEN [exc |-> "Exception", cmd |-> NoCmd]
      ELSE IF Abs(iClarfreq) > 9999
      THEN [exc |-> "Exception", cmd |-> NoCmd]
      ELSE IF \/ dMem.rxclar \notin DOMAIN bState
              \/ dMem.txclar \notin DOMAIN bState
              \/ dMem.mode \notin DOMAIN dMode
              \/ dMem.encode \notin DOMAIN dEncode
              \/ dMem.rpoffset \notin DOMAIN dShift
      THEN [exc |-> "KeyError", cmd |-> NoCmd]
      ELSE [exc |-> "none",
            cmd |-> [op |-> "MT", memloc |-> iLocation, vfoa |-> iRxfreq,
                     clarfreq |-> iClarfreq, rxclar |-> bState[dMem.rxclar],
                     txclar |-> bState[dMem.txclar], mode |-> dMode[dMem.mode],
                     encode |-> dEncode[dMem.encode],
                     rpoffset |-> dShift[dMem.rpoffset], tag |-> dMem.tag]]

\* setMemory up to its call of sendCommand: the exception it raises, or the
\* MT command it has formatted.
setMemory(dMem) ==
  LET iLocation == dMem.memloc
      iRxfreq == VfoaHz(dMem.vfoa)
      iClarfreq == dMem.clarfreq
  IN  IF iLocation < 1 \/ iLocation > 118
      THEN [exc |-> "Exception", cmd |-> NoCmd]
      ELSE IF iRxfreq < 30000 \/ iRxfreq > 450000000
      THEN [exc |-> "Exception", cmd |-> NoCmd]
      ELSE IF Abs(iClarfreq) > 9999
      THEN [exc |-> "Exception", cmd |-> NoCmd]
      ELSE IF \/ dMem.rxclar \notin DOMAIN bState
              \/ dMem.txclar \notin DOMAIN bState
              \/ dMem.mode \notin DOMAIN dMode
              \/ dMem.encode \notin DOMAIN dEncode
              \/ dMem.rpoffset \notin DOMAIN dShift
      THEN [exc |-> "KeyError", cmd |-> NoCmd]
      ELSE IF Len(dMem.tag) > 12
      THEN [exc |-> "Exception", cmd |-> NoCmd]
      ELSE [exc |-> "none",
            cmd |-> [op |-> "MT", memloc |-> iLocation, vfoa |-> iRxfreq,
                     clarfreq |-> iClarfreq, rxclar |-> bState[dMem.rxclar],
                     txclar |-> bState[dMem.txclar], mode |-> dMode[dMem.mode],
                     encode |-> dEncode[dMem.encode],
                     rpoffset |-> dShift[dMem.rpoffset], tag |-> dMem.tag]]

\* ---------------------------------------------------------------- programs
\* A program that uses the module: debug is set from the command line
\* before begin is called.
RadioInit ==
  /\ AgentParked
  /\ SerialParked
  /\ BackupParked
  /\ MuxParked
  /\ debug \in BOOLEAN
  /\ ptrDevice = "None"
  /\ ftPc = "init"
  /\ ftCall = NoCall
  /\ portWrites = << >>
  /\ portReads = 0
  /\ nCalls = 0

\* begin: nothing in debug mode; otherwise open the port, or print a
\* message and exit(1) when that fails.
Begin ==
  /\ ftPc = "init"
  /\ IF debug
     THEN /\ ftPc' = "ready"
          /\ ptrDevice' = ptrDevice
     ELSE \E opened \in BOOLEAN :
            /\ ptrDevice' = IF opened THEN "open" ELSE ptrDevice
            /\ ftPc' = IF opened THEN "ready" ELSE "exited"
  /\ UNCHANGED << debug, ftCall, portWrites, portReads, nCalls >>
  /\ UNCHANGED notRadioVars

\* the state after a set* call that raised exc before it sent anything
Raised(fn, arg, exc) ==
  /\ ftCall' = [fn |-> fn, arg |-> arg, outcome |-> "raised", exc |-> exc]
  /\ portWrites' = << >>
  /\ portReads' = 0

\* the state after a set* call that sent one command and got sc back;
\* the function raises its own error when the radio answered '?;'
Sent(fn, arg, sc) ==
  /\ ftCall' = [fn |-> fn, arg |-> arg,
                outcome |-> IF sc.result = "?;" THEN "raised" ELSE "returned",
                exc |-> IF sc.result = "?;" THEN "Exception" ELSE "none"]
  /\ portWrites' = sc.wrote
  /\ portReads' = sc.reads

CanCall == ftPc = "ready" /\ nCalls < MaxCalls

SetMemory ==
  /\ CanCall
  /\ \E dMem \in MemInputs, ans \in Answers :
       LET f == setMemory(dMem)
       IN  IF f.exc # "none" THEN Raised("setMemory", dMem, f.exc)
           ELSE Sent("setMemory", dMem, sendCommand(debug, f.cmd, ans))
  /\ nCalls' = nCalls + 1
  /\ UNCHANGED << debug, ptrDevice, ftPc >>
  /\ UNCHANGED notRadioVars

\* what the arguments of the other set* functions are told apart by: a
\* value the function accepts, one it rejects, or 'NA'
ArgKinds == {"valid", "invalid", "NA"}

\* setPower: a power outside 5..100 raises Exception; otherwise the
\* statement  sCmd += 'PC%03.d;' % power  refers to the local sCmd before
\* any assignment to it and raises UnboundLocalError.
SetPower ==
  /\ CanCall
  /\ \E arg \in {"valid", "invalid"} :
       Raised("setPower", arg,
              IF arg = "invalid" THEN "Exception" ELSE "UnboundLocalError")
  /\ nCalls' = nCalls + 1
  /\ UNCHANGED << debug, ptrDevice, ftPc >>
  /\ UNCHANGED notRadioVars

\* setMemoryLocation: a location outside 1..118 raises; otherwise one MC
\* command is sent and the function returns, None for '?;'.
SetMemoryLocation ==
  /\ CanCall
  /\ \E arg \in {"valid", "invalid"}, ans \in Answers :
       IF arg = "invalid" THEN Raised("setMemoryLocation", arg, "Exception")
       ELSE LET sc == sendCommand(debug, [op |-> "MC"], ans)
            IN  /\ ftCall' = [fn |-> "setMemoryLocation", arg |-> arg,
                              outcome |-> "returned", exc |-> "none"]
                /\ portWrites' = sc.wrote
                /\ portReads' = sc.reads
  /\ nCalls' = nCalls + 1
  /\ UNCHANGED << debug, ptrDevice, ftPc >>
  /\ UNCHANGED notRadioVars

\* the set* functions that look their argument up in a table (or convert
\* it with int) and send one command
LookupSetters ==
  {"setCTCSS", "setDCS", "setRxClarifier", "setTxClarifier", "setPreamp",
   "setNoiseBlanker", "setDNRalgorithm"}

SetLookup ==
  /\ CanCall
  /\ \E fn \in LookupSetters, arg \in {"valid", "invalid"}, ans \in Answers :
       IF arg = "invalid" THEN Raised(fn, arg, "KeyError")
       ELSE Sent(fn, arg, sendCommand(debug, [op |-> fn], ans))
  /\ nCalls' = nCalls + 1
  /\ UNCHANGED << debug, ptrDevice, ftPc >>
  /\ UNCHANGED notRadioVars

\* the set* functions that return at once for 'NA' and otherwise send one
\* command
OptionalSetters ==
  {"setRfAttn", "setIFshift", "setIFwidth", "setDNRstate", "setDNFstate",
   "setNARstate"}

SetOptional ==
  /\ CanCall
  /\ \E fn \in OptionalSetters, arg \in ArgKinds, ans \in Answers :
       CASE arg = "NA" ->
              /\ ftCall' = [fn |-> fn, arg |-> arg, outcome |-> "returned",
                            exc |-> "none"]
              /\ portWrites' = << >>
              /\ portReads' = 0
         [] arg = "invalid" -> Raised(fn, arg, "KeyError")
         [] OTHER -> Sent(fn, arg, sendCommand(debug, [op |-> fn], ans))
  /\ nCalls' = nCalls + 1
  /\ UNCHANGED << debug, ptrDevice, ftPc >>
  /\ UNCHANGED notRadioVars

\* the set* functions that return at once for 'NA' and otherwise send two
\* commands, the second only when the radio accepted the first
PairSetters == {"setContour", "setAPF", "setNotchState"}

SetPair ==
  /\ CanCall
  /\ \E fn \in PairSetters, arg \in ArgKinds, ans1 \in Answers, ans2 \in Answers :
       CASE arg = "NA" ->
              /\ ftCall' = [fn |-> fn, arg |-> arg, outcome |-> "returned",
                            exc |-> "none"]
              /\ portWrites' = << >>
              /\ portReads' = 0
         [] arg = "invalid" -> Raised(fn, arg, "ValueError")
         [] OTHER ->
              LET sc1 == sendCommand(debug, [op |-> fn, inx |-> 1], ans1)
                  sc2 == sendCommand(debug, [op |-> fn, inx |-> 2], ans2)
              IN  IF sc1.result = "?;" THEN Sent(fn, arg, sc1)
                  ELSE Sent(fn, arg, [wrote |-> sc1.wrote \o sc2.wrote,
                                      reads |-> sc1.reads + sc2.reads,
                                      result |-> sc2.result])
  /\ nCalls' = nCalls + 1
  /\ UNCHANGED << debug, ptrDevice, ftPc >>
  /\ UNCHANGED notRadioVars

RadioNext ==
  \/ Begin
  \/ SetMemory
  \/ SetPower
  \/ SetMemoryLocation
  \/ SetLookup
  \/ SetOptional
  \/ SetPair

RadioSpec == RadioInit /\ [][RadioNext]_vars

\* --------------------------------------------------------------------- C12
\* the input of setMemory is valid
ValidMemory(d) ==
  /\ d.memloc \in 1..118
  /\ VfoaHz(d.vfoa) \in 30000..450000000
  /\ d.clarfreq \in (0 - 9999)..9999
  /\ Len(d.tag) <= 12
  /\ d.rxclar \in {"OFF", "ON"}
  /\ d.txclar \in {"OFF", "ON"}
  /\ d.mode \in DOMAIN dMode
  /\ d.encode \in DOMAIN dEncode
  /\ d.rpoffset \in DOMAIN dShift

ValidCall ==
  /\ ftCall.fn # "none"
  /\ IF ftCall.fn = "setMemory" THEN ValidMemory(ftCall.arg)
     ELSE ftCall.arg \in {"valid", "NA"}

\* in debug mode no serial port is opened and no set* call writes to or
\* reads from one
DebugNoSerial ==
  debug => (ptrDevice = "None" /\ portWrites = << >> /\ portReads = 0)

\* C15 as stated: in debug mode begin opens no serial port and every set*
\* function, called with an argument it accepts, completes without any
\* serial write or read.
C15_DebugSetCompletes ==
  debug =>
    /\ ptrDevice = "None"
    /\ ValidCall =>
         (ftCall.outcome = "returned" /\ portWrites = << >> /\ portReads = 0)

\* ====================================================================
\* receiveSerial (ft991utility/ft991.py, writememory/ft991.py) and
\* getAnswer (passthrough.py)
\* ====================================================================
\* longest sequence of characters the device sends in one run
MaxLine == 3

SERIAL_READ_BUFFER_LENGTH == 1024

\* the copies of the function: "utility" runs under Python 3, where
\* ptrDevice.read() returns bytes; the other two run under Python 2, where
\* it returns str
RxVariants == {"utility", "writememory", "passthrough"}

\* the characters a device sends: a letter, the terminator, the byte 0xfe
RxChars == {"A", ";", "fe"}

RxLines == UNION { [1..n -> RxChars] : n \in 0..MaxLine }

\* c == termchar, with termchar the str ';': a bytes object never equals a
\* str, so under Python 3 the test is false for every character read.
isTermchar(variant, c) ==
  IF variant = "utility" THEN FALSE ELSE c = ";"

\* the test that ends the reading before the character is appended:
\* c == '' (timeout) in all copies, c == b'\xfe' in the Python 3 copy
isBreakChar(variant, c) == variant = "utility" /\ c = "fe"

\* answer += c.decode('utf_8') appends nothing for a byte that does not
\* decode (the exception is caught and printed); answer += c appends the
\* character as it is
appended(variant, answer, c) ==
  IF variant = "utility" /\ c = "fe" THEN answer ELSE Append(answer, c)

SerialInit ==
  /\ AgentParked
  /\ RadioParked
  /\ BackupParked
  /\ MuxParked
  /\ rxVariant \in RxVariants
  /\ rxPending \in RxLines
  /\ rxWaiting = << >>
  /\ rxAnswer = << >>
  /\ rxPc = "reading"
  /\ rxCharCount = 0

\* the device puts its next character into the serial read buffer
DeviceSends ==
  /\ rxPending # << >>
  /\ rxWaiting' = Append(rxWaiting, Head(rxPending))
  /\ rxPending' = Tail(rxPending)
  /\ UNCHANGED << rxVariant, rxAnswer, rxPc, rxCharCount >>
  /\ UNCHANGED notSerialVars

\* one pass of the outer loop with a character in the buffer: read it,
\* append it, count it, then the termchar and overflow tests; on leaving
\* the loop the buffer is flushed and the answer returned
RxReadChar ==
  /\ rxPc = "reading"
  /\ rxWaiting # << >>
  /\ LET c == Head(rxWaiting)
     IN  IF isBreakChar(rxVariant, c)
         THEN /\ rxPc' = "returned"
              /\ rxWaiting' = << >>
              /\ UNCHANGED << rxAnswer, rxCharCount >>
         ELSE /\ rxAnswer' = appended(rxVariant, rxAnswer, c)
              /\ rxCharCount' = rxCharCount + 1
              /\ IF isTermchar(rxVariant, c)
                 THEN rxPc' = "returned" /\ rxWaiting' = << >>
                 ELSE IF rxCharCount' > SERIAL_READ_BUFFER_LENGTH
                 THEN rxPc' = "raised" /\ rxWaiting' = Tail(rxWaiting)
                 ELSE rxPc' = "reading" /\ rxWaiting' = Tail(rxWaiting)
  /\ UNCHANGED << rxVariant, rxPending >>
  /\ UNCHANGED notSerialVars

\* one pass of the outer loop in which no character became available
\* within _SERIAL_READ_TIMEOUT: c stays '', the loop ends
RxTimeout ==
  /\ rxPc = "reading"
  /\ rxWaiting = << >>
  /\ rxPc' = "returned"
  /\ UNCHANGED << rxVariant, rxPending, rxWaiting, rxAnswer, rxCharCount >>
  /\ UNCHANGED notSerialVars

SerialNext ==
  \/ DeviceSends
  \/ RxReadChar
  \/ RxTimeout

SerialSpec == SerialInit /\ [][SerialNext]_vars

\* --------------------------------------------------------------------- C14
\* C14 as stated: the answer receiveSerial builds holds at most one ';',
\* and only as its last character, so nothing the device sent after the
\* ';' is part of the answer.
C14_StopsAtTermchar ==
  \A i \in 1..Len(rxAnswer) : rxAnswer[i] = ";" => i = Len(rxAnswer)

\* the Python 2 copies do stop at the terminator
StopsAtTermcharPy2 ==
  rxVariant \in {"writememory", "passthrough"} => C14_StopsAtTermchar

\* ====================================================================
\* Backup and restore of the memory settings, ft991utility.py
\* ====================================================================
\* number of memory locations of the radio that may hold a setting
MaxLoc == 2

MAX_NUMBER_OF_MEMORY_ITEMS == 118

\* what the radio holds in a memory location
Empty == [programmed |-> FALSE]

Settings ==
  { [programmed |-> TRUE, vfoa |-> v, clarfreq |-> 0 - 50, rxclar |-> "ON",
     txclar |-> "OFF", mode |-> "FM", encode |-> "TONE ENC",
     rpoffset |-> "+RPT", tag |-> TagOfLen(6), tone |-> "100.0 Hz",
     dcs |-> "23"] :
    v \in { [mhz |-> 146, hz |-> 520000], [mhz |-> 7, hz |-> 74000] } }

Memories == [1..MaxLoc -> Settings \cup {Empty}]

\* the text of the numbers 1 to 9
DigitText == << "1", "2", "3", "4", "5", "6", "7", "8", "9" >>

\* str(i) and int(s) for these numbers
str(i) == DigitText[i]

int(s) == CHOOSE i \in DOMAIN DigitText : DigitText[i] = s

\* getMemory: the radio answers '?;' for an empty location and indexing
\* that answer raises IndexError; otherwise the answer is parsed into a
\* dictionary with these nine keys
getMemory(mem, memloc) ==
  IF memloc \notin DOMAIN mem \/ ~mem[memloc].programmed
  THEN [exc |-> "IndexError", dMem |-> << >>]
  ELSE [exc |-> "none",
        dMem |-> [memloc |-> str(memloc), vfoa |-> mem[memloc].vfoa,
                  clarfreq |-> mem[memloc].clarfreq,
                  rxclar |-> mem[memloc].rxclar,
                  txclar |-> mem[memloc].txclar, mode |-> mem[memloc].mode,
                  encode |-> mem[memloc].encode,
                  rpoffset |-> mem[memloc].rpoffset, tag |-> mem[memloc].tag]]

\* the column headers, the first line of a settings file
Header == << "Memory Ch" >>

\* the keys of dMem that readMemorySettings puts into a line
FormatKeys ==
  {"memloc", "rxfreq", "shift", "mode", "tag", "encode", "clarfreq",
   "rxclar", "txclar"}

\* sCsvFormat: thirteen fields, each followed by a comma, so that
\* splitting the line at the commas gives fourteen items
formatLine(dMem, tone, dcs) ==
  IF FormatKeys \ DOMAIN dMem # {}
  THEN [exc |-> "KeyError", line |-> << >>]
  ELSE [exc |-> "none",
        line |-> << dMem.memloc, dMem.rxfreq, "", "", dMem.shift, dMem.mode,
                    dMem.tag, dMem.encode, tone, dcs, dMem.clarfreq,
                    dMem.rxclar, dMem.txclar, "" >>]

RECURSIVE readLocations(_, _, _)
\* the loop of readMemorySettings from iLocation on
readLocations(mem, iLocation, lSettings) ==
  IF iLocation >= MAX_NUMBER_OF_MEMORY_ITEMS
  THEN [exc |-> "none", lSettings |-> lSettings]
  ELSE LET g == getMemory(mem, iLocation)
           f == formatLine(g.dMem, mem[iLocation].tone, mem[iLocation].dcs)
       IN  IF g.exc # "none" THEN [exc |-> g.exc, lSettings |-> lSettings]
           ELSE IF f.exc # "none" THEN [exc |-> f.exc, lSettings |-> lSettings]
           ELSE readLocations(mem, iLocation + 1, Append(lSettings, f.line))

readMemorySettings(mem) == readLocations(mem, 1, << Header >>)

\* writeToFile followed by readFromFile: every item is written as a line
\* and read back without its newline
writeToFile(lSettings) == [exists |-> TRUE, lines |-> lSettings]

readFromFile(file) == file.lines

\* lchan[0].isdigit()
isdigit(item) == \E i \in DOMAIN DigitText : DigitText[i] = item

\* parseCsvData: None for a line that does not start with a number;
\* otherwise items 0 to 25 of the line are stored, and a line with fewer
\* items raises IndexError
parseCsvData(lchan) ==
  IF ~isdigit(lchan[1]) THEN [exc |-> "none", isNone |-> TRUE]
  ELSE IF Len(lchan) < 26 THEN [exc |-> "IndexError", isNone |-> FALSE]
  ELSE [exc |-> "none", isNone |-> FALSE,
        dChan |-> [memloc |-> lchan[1], vfoa |-> lchan[2],
                   rpoffset |-> lchan[3], mode |-> lchan[4], tag |-> lchan[5],
                   encode |-> lchan[6], tone |-> lchan[7], dcs |-> lchan[8],
                   clarfreq |-> lchan[9], rxclar |-> lchan[10],
                   txclar |-> lchan[11]]]

\* a line in the layout parseCsvData reads, for the setting m of location
\* memloc; the items after txclar are 'NA'
parseLayoutLine(memloc, m) ==
  << str(memloc), m.vfoa, m.rpoffset, m.mode, m.tag, m.encode, m.tone, m.dcs,
     m.clarfreq, m.rxclar, m.txclar >> \o [i \in 1..15 |-> "NA"]

\* a line in the layout readMemorySettings formats, had dMem the keys
\* rxfreq and shift
backupLayoutLine(memloc, m) ==
  << str(memloc), m.vfoa, "", "", m.rpoffset, m.mode, m.tag, m.encode, m.tone,
     m.dcs, m.clarfreq, m.rxclar, m.txclar, "" >>

RECURSIVE linesOf(_, _, _)
\* the lines for the programmed locations of mem from location i on
linesOf(layout, mem, i) ==
  IF i > MaxLoc THEN << >>
  ELSE (IF mem[i].programmed
        THEN << IF layout = "parse" THEN parseLayoutLine(i, mem[i])
                ELSE backupLayoutLine(i, mem[i]) >>
        ELSE << >>) \o linesOf(layout, mem, i + 1)

\* what one line makes writeMemorySettings send: setMemory,
\* setMemoryLocation, setCTCSS, setDCS, setRxClarifier, setTxClarifier
sentFor(dItem) ==
  [memloc |-> int(dItem.memloc), vfoa |-> VfoaHz(dItem.vfoa), mode |-> dItem.mode,
   tag |-> dItem.tag, encode |-> dItem.encode, rpoffset |-> dItem.rpoffset,
   tone |-> dItem.tone, dcs |-> dItem.dcs, clarfreq |-> dItem.clarfreq,
   rxclar |-> dItem.rxclar, txclar |-> dItem.txclar]

RECURSIVE writeMemorySettings(_, _)
\* writeMemorySettings with a radio that accepts every command: parse each
\* line (outside the try), skip the header, send the settings; an
\* exception of setMemory is caught and ends the program with exit(1)
writeMemorySettings(lSettings, sent) ==
  IF lSettings = << >> THEN [exc |-> "none", sent |-> sent]
  ELSE LET p == parseCsvData(Head(lSettings))
       IN  IF p.exc # "none" THEN [exc |-> p.exc, sent |-> sent]
           ELSE IF p.isNone THEN writeMemorySettings(Tail(lSettings), sent)
           ELSE IF setMemory([p.dChan EXCEPT !.memloc = int(@)]).exc # "none"
           THEN [exc |-> "exit", sent |-> sent]
           ELSE writeMemorySettings(Tail(lSettings),
                                    Append(sent, sentFor(p.dChan)))

\* the settings the radio holds, as the restore would have to send them
RECURSIVE settingsOf(_, _)
settingsOf(mem, i) ==
  IF i > MaxLoc THEN << >>
  ELSE (IF mem[i].programmed
        THEN << sentFor(mem[i] @@ [memloc |-> str(i)]) >>
        ELSE << >>) \o settingsOf(mem, i + 1)

\* the utility at its menu: the radio holds some memory settings; there is
\* no settings file yet, or one from elsewhere in either layout
BackupInit ==
  /\ AgentParked
  /\ RadioParked
  /\ SerialParked
  /\ MuxParked
  /\ bkPc = "menu"
  /\ radioMem \in Memories
  /\ \/ memFile = NoFile
     \/ \E layout \in {"backup", "parse"}, m \in Memories :
          memFile = [exists |-> TRUE, lines |-> << Header >> \o linesOf(layout, m, 1)]
  /\ bkRan = {}
  /\ bkExc = NoExc
  /\ restSent = << >>

\* menu command 'bm': readMemorySettings, then writeToFile; an exception of
\* readMemorySettings is not caught and ends the program
BackupMemorySettings ==
  /\ bkPc = "menu"
  /\ "backup" \notin bkRan
  /\ LET r == readMemorySettings(radioMem)
     IN  /\ bkExc' = [bkExc EXCEPT !.backup = r.exc]
         /\ IF r.exc # "none"
            THEN bkPc' = "crashed" /\ memFile' = memFile
            ELSE bkPc' = "menu" /\ memFile' = writeToFile(r.lSettings)
  /\ bkRan' = bkRan \cup {"backup"}
  /\ UNCHANGED << radioMem, restSent >>
  /\ UNCHANGED notBackupVars

\* menu command 'rm': without a file print 'File not found' and return;
\* otherwise readFromFile, then writeMemorySettings
RestoreMemorySettings ==
  /\ bkPc = "menu"
  /\ "restore" \notin bkRan
  /\ IF ~memFile.exists
     THEN UNCHANGED << bkPc, bkExc, restSent >>
     ELSE LET w == writeMemorySettings(readFromFile(memFile), << >>)
          IN  /\ bkExc' = [bkExc EXCEPT !.restore = w.exc]
              /\ restSent' = w.sent
              /\ bkPc' = CASE w.exc = "none" -> "menu"
                           [] w.exc = "exit" -> "exited"
                           [] OTHER -> "crashed"
  /\ bkRan' = bkRan \cup {"restore"}
  /\ UNCHANGED << radioMem, memFile >>
  /\ UNCHANGED notBackupVars

BackupNext ==
  \/ BackupMemorySettings
  \/ RestoreMemorySettings

BackupSpec == BackupInit /\ [][BackupNext]_vars

\* --------------------------------------------------------------------- C13
\* C13 as stated: once backupMemorySettings has run, the settings file it
\* wrote makes restoreMemorySettings send, for every programmed memory
\* location, the location number, frequency, mode, tag, encoding, tone, DCS
\* code and clarifier settings that the radio holds.
C13_BackupRestoreRoundTrip ==
  "backup" \in bkRan =>
    /\ bkExc.backup = "none"
    /\ memFile.exists
    /\ writeMemorySettings(readFromFile(memFile), << >>).exc = "none"
    /\ writeMemorySettings(readFromFile(memFile), << >>).sent
         = settingsOf(radioMem, 1)

\* a file in the layout that readMemorySettings formats is not restored
\* either: parseCsvData needs 26 items in a line
BackupLayoutNotRestored ==
  (memFile.exists /\ "restore" \in bkRan /\ Len(memFile.lines) > 1
     /\ Len(memFile.lines[2]) < 26)
    => (bkExc.restore = "IndexError" /\ restSent = << >>)

\* a file in the layout parseCsvData reads is restored line by line
ParseLayoutRestored ==
  /\ "restore" \in bkRan /\ bkRan = {"restore"}
  /\ Len(restSent) = MaxLoc
  /\ bkExc.restore = "none"

\* ====================================================================
\* The I2C multiplexer, nodepower/bin/i2cmux/i2cmux.py
\* ====================================================================
\* number of method calls made on one i2cmux object
MaxMuxCalls == 2

DEFAULT_CONFIG == 8

\* Faulty variant: the last entry enables every output.
channel_confAllOn == << 1, 2, 4, 8, 16, 32, 64, 128, 255 >>

\* channel_conf[k], for k = 0..8, is item k + 1
channel_conf == << 1, 2, 4, 8, 16, 32, 64, 128, 0 >>

MuxOps ==
  {"write_i2c_block_data", "read_i2c_block_data", "write_byte", "read_byte"}

NoOp == [name |-> "none", outcome |-> "none"]

\* before the constructor runs the control register holds its power-on
\* value or what an earlier process left in it
MuxInit ==
  /\ AgentParked
  /\ RadioParked
  /\ SerialParked
  /\ BackupParked
  /\ muxPc = "new"
  /\ muxReg \in {0, 128}
  /\ muxConfig = DEFAULT_CONFIG
  /\ muxOp = NoOp
  /\ muxChannel = 0
  /\ muxCalls = 0

\* __init__: write channel_conf[config] to the multiplexer; an IOError of
\* the bus ends the construction
MuxConstruct ==
  /\ muxPc = "new"
  /\ \E config \in 0..8, ok \in BOOLEAN :
       /\ muxConfig' = config
       /\ muxReg' = IF ok THEN channel_conf[config + 1] ELSE muxReg
       /\ muxPc' = IF ok THEN "idle" ELSE "exited"
  /\ UNCHANGED << muxOp, muxChannel, muxCalls >>
  /\ UNCHANGED notMuxVars

\* the first statement of the four methods: enable the channel with
\* bus.write_byte(muxAddr, channel_conf[channel]); channel 9 is outside
\* the list (IndexError before any write)
MuxEnable ==
  /\ muxPc = "idle"
  /\ muxCalls < MaxMuxCalls
  /\ \E name \in MuxOps, channel \in 0..9, ok \in BOOLEAN :
       /\ muxChannel' = channel
       /\ IF channel > 8 \/ ~ok
          THEN /\ muxOp' = [name |-> name, outcome |-> "raised"]
               /\ muxReg' = muxReg
               /\ muxPc' = "idle"
          ELSE /\ muxOp' = [name |-> name, outcome |-> "running"]
               /\ muxReg' = channel_conf[channel + 1]
               /\ muxPc' = "enabled"
  /\ muxCalls' = muxCalls + 1
  /\ UNCHANGED muxConfig
  /\ UNCHANGED notMuxVars

\* the transfer to or from the device behind the multiplexer; an IOError
\* leaves the method at once
MuxAccess ==
  /\ muxPc = "enabled"
  /\ \E ok \in BOOLEAN :
       IF ok THEN muxPc' = "accessed" /\ muxOp' = muxOp
       ELSE muxPc' = "idle" /\ muxOp' = [muxOp EXCEPT !.outcome = "raised"]
  /\ UNCHANGED << muxReg, muxConfig, muxChannel, muxCalls >>
  /\ UNCHANGED notMuxVars

\* the last statement: disable the channel with bus.write_byte(muxAddr, 0)
MuxDisable ==
  /\ muxPc = "accessed"
  /\ \E ok \in BOOLEAN :
       /\ muxReg' = IF ok THEN 0 ELSE muxReg
       /\ muxOp' = [muxOp EXCEPT !.outcome = IF ok THEN "completed" ELSE "raised"]
  /\ muxPc' = "idle"
  /\ UNCHANGED << muxConfig, muxChannel, muxCalls >>
  /\ UNCHANGED notMuxVars

MuxNext ==
  \/ MuxConstruct
  \/ MuxEnable
  \/ MuxAccess
  \/ MuxDisable

MuxSpec == MuxInit /\ [][MuxNext]_vars

\* --------------------------------------------------------------------- C16
\* C16: after construction with the default configuration and after every
\* completed method call the control register is 0; while a call on
\* channel k in 0..7 is between its enabling and its disabling write, the
\* register is 2^k, bit k alone, and the device access happens in between.
C16_OutputsDisabledOutsideCalls ==
  /\ (muxPc = "idle" /\ muxOp = NoOp /\ muxConfig = DEFAULT_CONFIG) => muxReg = 0
  /\ (muxPc = "idle" /\ muxOp.outcome = "completed") => muxReg = 0
  /\ (muxPc \in {"enabled", "accessed"} /\ muxChannel \in 0..7)
       => muxReg = 2 ^ muxChannel
  /\ (muxPc \in {"enabled", "accessed"} /\ muxChannel = 8) => muxReg = 0

\* the second call, on channel 3, has accessed its device with bit 3 set
C16_Witness ==
  /\ muxPc = "accessed" /\ muxCalls = 2 /\ muxChannel = 3 /\ muxReg = 8
  /\ muxOp.name = "read_i2c_block_data"

\* a call that raised in its device access has left its channel enabled
ChannelLeftEnabled ==
  muxPc = "idle" /\ muxOp.outcome = "raised" /\ muxChannel = 3 /\ muxReg = 8

\* --------------------------------------------------------------------- C17
\* C17 as stated: at every reading of the clock at the top of the loop more
\* than the request interval has passed since the last poll, so every
\* iteration of the main loop polls.
C17_EveryIterationPolls == iter >= 1 => polled

\* the first iteration polls and starts the charts
FirstIterationPollsAndCharts ==
  iter = 1 => (polled /\ (pc = "loop" => chartsStarted = 1))

====
